---- MODULE Spec2Model ----
(***************************************************************************)
(* Model of the resolvers of olivere/grpc/lb.                              *)
(*                                                                         *)
(* Spec, FairSpec, LiveSpec: package healthz (src/lb/healthz/healthz.go),   *)
(* the health-checked resolver.  NewResolver runs one round of probes,     *)
(* pushes its batch and starts the background updater; the updater runs    *)
(* one round per timer tick; Next receives from the update channel; Close  *)
(* closes the quit channel and the update channel.                         *)
(*                                                                         *)
(* LbSpec: lb.HealthzResolver (src/lb/healthz.go), the older resolver of    *)
(* package lb, whose probes return their errors to the errgroup.           *)
(*                                                                         *)
(* StaticSpec: StaticResolver, which returns its address list once.        *)
(*                                                                         *)
(* Go semantics that the model states explicitly:                          *)
(*  - a send on a closed channel and a close of a closed channel panic;    *)
(*    an unrecovered panic ends the whole process;                         *)
(*  - a receive from a closed channel returns the buffered values first    *)
(*    and then the zero value (a nil batch), without blocking;             *)
(*  - a select with several ready cases picks any of them;                 *)
(*  - break inside a select leaves the select, not the enclosing for;      *)
(*  - an errgroup made with WithContext cancels its context when the first *)
(*    goroutine returns an error, and Wait returns that error.             *)
(***************************************************************************)
EXTENDS Integers, Sequences, FiniteSets, Bags, TLC

\* ------------------------------------------------------------ bounds
\* Largest number of endpoints passed to SetEndpoints (0 = none given).
MaxEndpoints == 2
\* Largest number of rounds (calls of update) in one behaviour.
MaxRounds == 3
\* Largest number of addresses passed to NewStaticResolver.
MaxAddrs == 2
\* Largest number of Next calls made on a StaticResolver.
MaxNextCalls == 3
\* Largest number of Close calls made on a StaticResolver.
MaxCloseCalls == 2

\* ------------------------------------------------------- program constants
\* http.StatusServiceUnavailable: the status of an endpoint before its first
\* probe and after a probe that failed with a transport error or timeout.
StatusServiceUnavailable == 503

\* HTTP status codes a health endpoint answers with in the model.
ResponseCodes == {200, 502}
\* What one probe (ctxhttp.Get) can return: a response with a status code and
\* a nil error, or no response and an error (connection refused, or the
\* round's context deadline exceeded).
ProbeOutcomes ==
    {[err |-> FALSE, code |-> c] : c \in ResponseCodes} \cup {[err |-> TRUE, code |-> 0]}

VARIABLES
    n,            \* len(r.endp): the number of configured endpoints
    status,       \* status[e]: Endpoint.status of endpoint e
    ctorPc,       \* where NewResolver is
    updPc,        \* where the updater goroutine is
    mu,           \* holder of Resolver.mu
    oldStatuses,  \* update's snapshot of the statuses
    pending,      \* endpoints whose probe goroutine has not finished
    updates,      \* the batch update returned to its caller
    roundNo,      \* number of rounds started so far
    quitc,        \* r.quitc: "open" or "closed"
    updatesc,     \* r.updatesc: [state, buf]
    nextPc,       \* where the consumer is: "idle" or "waiting" (inside Next)
    nextInfo,     \* what was true when the consumer's Next call was issued
    lastNext,     \* what the consumer's last Next call returned
    recvd,        \* the batches Next has received from the channel, in order
    closePc,      \* closePc[c]: where closer c is inside Close
    seqClose,     \* a Close call was issued after another Close call had returned
    panicked,     \* "none", or the reason the process died
    hist,         \* the last three completed rounds: [round, ok, events]
    ctx,          \* lb.HealthzResolver.update: the state of the round's context
    gerr,         \* lb.HealthzResolver.update: the first error of the errgroup
    given,        \* StaticResolver: the addresses NewStaticResolver was given
    addr,         \* StaticResolver.addr (<<>> is the nil slice)
    snPc,         \* StaticResolver: snPc[g]: where caller g of Next is
    snLast,       \* StaticResolver: what the last Next call returned
    snCalls,      \* StaticResolver: the number of Next calls issued
    closeCalls    \* StaticResolver: the number of Close calls made

\* The fields of a health-checked resolver and the state of its goroutines.
\* Package healthz's Resolver and package lb's HealthzResolver have the same
\* fields; each specification below is about one resolver object.
resolverVars ==
    <<n, status, ctorPc, updPc, mu, oldStatuses, pending, updates, roundNo,
      quitc, updatesc, nextPc, nextInfo, lastNext, recvd, closePc,
      seqClose, panicked, hist>>
\* What only lb.HealthzResolver.update has: a probe that returns its error to
\* the errgroup.
lbVars == <<ctx, gerr>>
\* The StaticResolver and its callers.
staticVars == <<given, addr, snPc, snLast, snCalls, closeCalls>>

vars == <<resolverVars, lbVars, staticVars>>

Endpoints == 1..n
\* The goroutines that call Close, each once.
Closers == {"c1", "c2"}

\* Endpoint.Addr of endpoint e: the configured addresses are distinct, and the
\* model names each by its index.
Addr(e) == e

\* ------------------------------------------------------------ update()
\* oldOK / newOK of update: a status in the success range.
IsOK(s) == s >= 200 /\ s < 300

\* A batch ([]*naming.Update) is modelled as a bag of updates: the loop that
\* builds it ranges over a Go map, whose iteration order is unspecified, so
\* only the updates and their multiplicities are determined.
Update(op, e) == SetToBag({[Op |-> op, Addr |-> Addr(e)]})

\* Variants of EventsOf used to test the properties below: Add and Delete
\* exchanged, and level-triggered instead of edge-triggered.
EventsOfSwapped(e, old, new) ==
    IF IsOK(old) /\ ~IsOK(new) THEN Update("Add", e)
    ELSE IF ~IsOK(old) /\ IsOK(new) THEN Update("Delete", e)
    ELSE EmptyBag
EventsOfLevel(e, old, new) ==
    IF ~IsOK(new) THEN Update("Delete", e)
    ELSE IF ~IsOK(old) THEN Update("Add", e)
    ELSE EmptyBag

\* Variant of EventsOf that repeats the Add of an endpoint that stays healthy.
EventsOfAddAlways(e, old, new) ==
    IF IsOK(old) /\ ~IsOK(new) THEN Update("Delete", e)
    ELSE IF IsOK(new) THEN Update("Add", e)
    ELSE EmptyBag

\* The updates one endpoint contributes to the batch.
EventsOf(e, old, new) ==
    IF IsOK(old) /\ ~IsOK(new) THEN Update("Delete", e)
    ELSE IF ~IsOK(old) /\ IsOK(new) THEN Update("Add", e)
    ELSE EmptyBag

\* The loop over oldStatuses.
RECURSIVE DiffOver(_, _, _)
DiffOver(eps, old, new) ==
    IF eps = {} THEN EmptyBag
    ELSE LET e == CHOOSE x \in eps : TRUE
         IN EventsOf(e, old[e], new[e]) (+) DiffOver(eps \ {e}, old, new)
Diff(old, new) == DiffOver(DOMAIN old, old, new)

\* What a probe stores in ep.status.
ProbeStatus(e, outcome) ==
    IF outcome.err THEN StatusServiceUnavailable ELSE outcome.code

Alive == panicked = "none"

\* hist keeps the records of the last three completed rounds.
LastThree(h) == IF Len(h) > 3 THEN Tail(h) ELSE h

NoNext == [valid |-> FALSE, events |-> EmptyBag, more |-> FALSE, err |-> "nil"]

\* No errgroup round of lb.HealthzResolver is in progress.
NoRound ==
    /\ ctx = "none"
    /\ gerr = "nil"

\* The goroutines that call Next on a StaticResolver.
StaticCallers == {"g1", "g2"}

\* No Next call on the StaticResolver has returned.  Of a call that returned,
\* call is its place among the calls issued and closes the number of Close
\* calls made before it returned.
NoStaticNext ==
    [valid |-> FALSE, updates |-> <<>>, err |-> "nil", call |-> 0, closes |-> 0]

\* No StaticResolver is part of the behaviour.
NoStatic ==
    /\ given = <<>>
    /\ addr = <<>>
    /\ snPc = [g \in StaticCallers |-> "idle"]
    /\ snLast = NoStaticNext
    /\ snCalls = 0
    /\ closeCalls = 0

Init ==
    /\ n \in 0..MaxEndpoints
    /\ status = [e \in 1..n |-> StatusServiceUnavailable]
    /\ ctorPc = "start"
    /\ updPc = "none"
    /\ mu = "free"
    /\ oldStatuses = <<>>
    /\ pending = {}
    /\ updates = EmptyBag
    /\ roundNo = 0
    /\ quitc = "open"
    /\ updatesc = [state |-> "nil", buf |-> <<>>]
    /\ nextPc = "idle"
    /\ nextInfo = [first |-> FALSE, afterClose |-> FALSE, blockedAtClose |-> FALSE]
    /\ lastNext = NoNext
    /\ recvd = <<>>
    /\ closePc = [c \in Closers |-> "idle"]
    /\ seqClose = FALSE
    /\ panicked = "none"
    /\ hist = <<>>
    /\ NoRound
    /\ NoStatic

\* ------------------------------------------------------------ NewResolver
\* Variant of NewResolverCheck without the test of len(r.endp).
NewResolverCheckNoTest ==
    /\ Alive
    /\ ctorPc = "start"
    /\ ctorPc' = "update"
    /\ updatesc' = [state |-> "open", buf |-> <<>>]
    /\ UNCHANGED <<n, status, updPc, mu, oldStatuses, pending, updates,
                   roundNo, quitc, nextPc, nextInfo, lastNext, recvd, closePc,
                   seqClose, panicked, hist>>
    /\ UNCHANGED <<lbVars, staticVars>>

\* len(r.endp) == 0: return nil, ErrNoEndpoints; otherwise make the update
\* channel with capacity len(r.endp) and go on to the initial update.
NewResolverCheck ==
    /\ Alive
    /\ ctorPc = "start"
    /\ IF n = 0
       THEN /\ ctorPc' = "failed"
            /\ UNCHANGED updatesc
       ELSE /\ ctorPc' = "update"
            /\ updatesc' = [state |-> "open", buf |-> <<>>]
    /\ UNCHANGED <<n, status, updPc, mu, oldStatuses, pending, updates,
                   roundNo, quitc, nextPc, nextInfo, lastNext, recvd, closePc,
                   seqClose, panicked, hist>>
    /\ UNCHANGED <<lbVars, staticVars>>

\* update, first part: r.mu.Lock(), the snapshot of the statuses, and one
\* probe goroutine started per endpoint.
UpdateLock(p) ==
    /\ mu = "free"
    /\ mu' = p
    /\ oldStatuses' = status
    /\ pending' = Endpoints
    /\ roundNo' = roundNo + 1

\* Variant of Probe in which a failed probe ends the probes still in flight
\* without a result.
ProbeFailFast(e, o) ==
    /\ Alive
    /\ e \in pending
    /\ status' = [status EXCEPT ![e] = ProbeStatus(e, o)]
    /\ pending' = IF o.err THEN {} ELSE pending \ {e}
    /\ UNCHANGED <<n, ctorPc, updPc, mu, oldStatuses, updates, roundNo, quitc,
                   updatesc, nextPc, nextInfo, lastNext, recvd, closePc,
                   seqClose, panicked, hist>>
    /\ UNCHANGED <<lbVars, staticVars>>

\* One probe goroutine: ctxhttp.Get ends with outcome o, the goroutine stores
\* the status and returns nil.
Probe(e, o) ==
    /\ Alive
    /\ e \in pending
    /\ status' = [status EXCEPT ![e] = ProbeStatus(e, o)]
    /\ pending' = pending \ {e}
    /\ UNCHANGED <<n, ctorPc, updPc, mu, oldStatuses, updates, roundNo, quitc,
                   updatesc, nextPc, nextInfo, lastNext, recvd, closePc,
                   seqClose, panicked, hist>>
    /\ UNCHANGED <<lbVars, staticVars>>

\* update, second part: g.Wait() returns nil once every probe goroutine has
\* returned (each returns nil), the batch is computed, and the deferred Unlock
\* runs.
UpdateJoin(p) ==
    /\ mu = p
    /\ pending = {}
    /\ updates' = Diff(oldStatuses, status)
    /\ mu' = "free"
    /\ oldStatuses' = <<>>
    /\ hist' = LastThree(Append(hist, [round |-> roundNo,
                                       ok |-> {e \in Endpoints : IsOK(status[e])},
                                       events |-> updates']))

\* Variant of NewResolverUpdate that starts the updater before the initial
\* update instead of after it.
NewResolverUpdateGoFirst ==
    /\ Alive
    /\ ctorPc = "update"
    /\ UpdateLock("ctor")
    /\ ctorPc' = "probing"
    /\ updPc' = "select"
    /\ UNCHANGED <<n, status, updates, quitc, updatesc, nextPc,
                   nextInfo, lastNext, recvd, closePc, seqClose, panicked,
                   hist>>
    /\ UNCHANGED <<lbVars, staticVars>>

NewResolverUpdate ==
    /\ Alive
    /\ ctorPc = "update"
    /\ UpdateLock("ctor")
    /\ ctorPc' = "probing"
    /\ UNCHANGED <<n, status, updPc, updates, quitc, updatesc, nextPc,
                   nextInfo, lastNext, recvd, closePc, seqClose, panicked,
                   hist>>
    /\ UNCHANGED <<lbVars, staticVars>>

NewResolverJoin ==
    /\ Alive
    /\ ctorPc = "probing"
    /\ UpdateJoin("ctor")
    /\ ctorPc' = "joined"
    /\ UNCHANGED <<n, status, updPc, pending, roundNo, quitc, updatesc,
                   nextPc, nextInfo, lastNext, recvd, closePc, seqClose,
                   panicked>>
    /\ UNCHANGED <<lbVars, staticVars>>

\* Variant of NewResolverPush with the length test inverted.
NewResolverPushInverted ==
    /\ Alive
    /\ ctorPc = "joined"
    /\ IF BagCardinality(updates) = 0
       THEN updatesc' = [updatesc EXCEPT
                !.buf = Append(@, [round |-> roundNo, events |-> updates])]
       ELSE UNCHANGED updatesc
    /\ updates' = EmptyBag
    /\ ctorPc' = "go"
    /\ UNCHANGED <<n, status, updPc, mu, oldStatuses, pending, roundNo, quitc,
                   nextPc, nextInfo, lastNext, recvd, closePc, seqClose,
                   panicked, hist>>
    /\ UNCHANGED <<lbVars, staticVars>>

\* Variant of NewResolverPush that drops the initial batch.
NewResolverPushNever ==
    /\ Alive
    /\ ctorPc = "joined"
    /\ updates' = EmptyBag
    /\ ctorPc' = "go"
    /\ UNCHANGED <<n, status, updPc, mu, oldStatuses, pending, roundNo, quitc,
                   updatesc, nextPc, nextInfo, lastNext, recvd, closePc,
                   seqClose, panicked, hist>>
    /\ UNCHANGED <<lbVars, staticVars>>

\* if err == nil && len(updates) > 0 { r.updatesc <- updates }: the channel is
\* empty and has capacity len(r.endp) >= 1, so the send does not block.
NewResolverPush ==
    /\ Alive
    /\ ctorPc = "joined"
    /\ IF BagCardinality(updates) > 0
       THEN updatesc' = [updatesc EXCEPT
                !.buf = Append(@, [round |-> roundNo, events |-> updates])]
       ELSE UNCHANGED updatesc
    /\ updates' = EmptyBag
    /\ ctorPc' = "go"
    /\ UNCHANGED <<n, status, updPc, mu, oldStatuses, pending, roundNo, quitc,
                   nextPc, nextInfo, lastNext, recvd, closePc, seqClose,
                   panicked, hist>>
    /\ UNCHANGED <<lbVars, staticVars>>

\* go r.updater(); return r, nil.  The updater creates its ticker and waits
\* in its select.
NewResolverGo ==
    /\ Alive
    /\ ctorPc = "go"
    /\ ctorPc' = "returned"
    /\ updPc' = "select"
    /\ UNCHANGED <<n, status, mu, oldStatuses, pending, updates, roundNo,
                   quitc, updatesc, nextPc, nextInfo, lastNext, recvd,
                   closePc, seqClose, panicked, hist>>
    /\ UNCHANGED <<lbVars, staticVars>>

\* ------------------------------------------------------------ updater
\* select, case <-t.C: the ticker, which is never stopped (the deferred
\* t.Stop() runs only when updater returns), delivers a tick and the select
\* takes it; it can do so also when quitc is closed (a select with several
\* ready cases picks any).
UpdaterSelectTick ==
    /\ Alive
    /\ updPc = "select"
    /\ roundNo < MaxRounds
    /\ updPc' = "update"
    /\ UNCHANGED <<n, status, ctorPc, mu, oldStatuses, pending, updates,
                   roundNo, quitc, updatesc, nextPc, nextInfo, lastNext,
                   recvd, closePc, seqClose, panicked, hist>>
    /\ UNCHANGED <<lbVars, staticVars>>

\* select, case <-r.quitc: break.  The break leaves the select only.
UpdaterSelectQuit ==
    /\ Alive
    /\ updPc = "select"
    /\ quitc = "closed"
    /\ updPc' = "break"
    /\ UNCHANGED <<n, status, ctorPc, mu, oldStatuses, pending, updates,
                   roundNo, quitc, updatesc, nextPc, nextInfo, lastNext,
                   recvd, closePc, seqClose, panicked, hist>>
    /\ UNCHANGED <<lbVars, staticVars>>

\* After the break the for loop starts its next iteration.
UpdaterLoop ==
    /\ Alive
    /\ updPc = "break"
    /\ updPc' = "select"
    /\ UNCHANGED <<n, status, ctorPc, mu, oldStatuses, pending, updates,
                   roundNo, quitc, updatesc, nextPc, nextInfo, lastNext,
                   recvd, closePc, seqClose, panicked, hist>>
    /\ UNCHANGED <<lbVars, staticVars>>

UpdaterUpdate ==
    /\ Alive
    /\ updPc = "update"
    /\ UpdateLock("updater")
    /\ updPc' = "probing"
    /\ UNCHANGED <<n, status, ctorPc, updates, quitc, updatesc, nextPc,
                   nextInfo, lastNext, recvd, closePc, seqClose, panicked,
                   hist>>
    /\ UNCHANGED <<lbVars, staticVars>>

\* update returned (its error is always nil): the updater goes on to the send.
UpdaterJoin ==
    /\ Alive
    /\ updPc = "probing"
    /\ UpdateJoin("updater")
    /\ updPc' = "send"
    /\ UNCHANGED <<n, status, ctorPc, pending, roundNo, quitc, updatesc,
                   nextPc, nextInfo, lastNext, recvd, closePc, seqClose,
                   panicked>>
    /\ UNCHANGED <<lbVars, staticVars>>

\* Variant of UpdaterSend that puts the batch in front of the buffered ones.
UpdaterSendInFront ==
    /\ Alive
    /\ updPc = "send"
    /\ IF updatesc.state = "closed"
       THEN /\ panicked' = "send on closed channel"
            /\ updPc' = "panicked"
            /\ UNCHANGED <<updatesc, updates>>
       ELSE /\ Len(updatesc.buf) < n
            /\ updatesc' = [updatesc EXCEPT
                              !.buf = <<[round |-> roundNo, events |-> updates]>> \o @]
            /\ updates' = EmptyBag
            /\ updPc' = "select"
            /\ UNCHANGED panicked
    /\ UNCHANGED <<n, status, ctorPc, mu, oldStatuses, pending, roundNo,
                   quitc, nextPc, nextInfo, lastNext, recvd, closePc,
                   seqClose, hist>>
    /\ UNCHANGED <<lbVars, staticVars>>

\* r.updatesc <- updates: panics on a closed channel, blocks while the buffer
\* is full, appends otherwise.  The batch is sent whatever its length.
UpdaterSend ==
    /\ Alive
    /\ updPc = "send"
    /\ IF updatesc.state = "closed"
       THEN /\ panicked' = "send on closed channel"
            /\ updPc' = "panicked"
            /\ UNCHANGED <<updatesc, updates>>
       ELSE /\ Len(updatesc.buf) < n
            /\ updatesc' = [updatesc EXCEPT
                              !.buf = Append(@, [round |-> roundNo, events |-> updates])]
            /\ updates' = EmptyBag
            /\ updPc' = "select"
            /\ UNCHANGED panicked
    /\ UNCHANGED <<n, status, ctorPc, mu, oldStatuses, pending, roundNo,
                   quitc, nextPc, nextInfo, lastNext, recvd, closePc,
                   seqClose, hist>>
    /\ UNCHANGED <<lbVars, staticVars>>


\* ------------------------------------------------------------ Next
\* A Close call has returned after closing both channels.
Closed ==
    /\ \E c \in Closers : closePc[c] = "done"
    /\ quitc = "closed"
    /\ updatesc.state = "closed"

\* The consumer calls Next on the resolver NewResolver returned.
NextCall ==
    /\ Alive
    /\ ctorPc = "returned"
    /\ nextPc = "idle"
    /\ nextPc' = "waiting"
    /\ nextInfo' = [first |-> ~lastNext.valid,
                    afterClose |-> Closed,
                    blockedAtClose |-> FALSE]
    /\ UNCHANGED <<n, status, ctorPc, updPc, mu, oldStatuses, pending,
                   updates, roundNo, quitc, updatesc, lastNext, recvd,
                   closePc, seqClose, panicked, hist>>
    /\ UNCHANGED <<lbVars, staticVars>>

\* Variant of Received that reports a batch with a Delete as an error.
ReceivedProbeError ==
    IF updatesc.buf # <<>>
    THEN [valid |-> TRUE, events |-> Head(updatesc.buf).events, more |-> TRUE,
          err |-> IF \E e \in Endpoints :
                        CopiesIn([Op |-> "Delete", Addr |-> Addr(e)],
                                 Head(updatesc.buf).events) > 0
                  THEN "unhealthy" ELSE "nil"]
    ELSE [valid |-> TRUE, events |-> EmptyBag, more |-> FALSE, err |-> "nil"]

\* What return <-r.updatesc, nil returns: the oldest buffered batch, or the
\* zero value (a nil batch) when the channel is closed and drained; the error
\* is nil in both cases.  more is the receive's second result, which the code
\* does not read.
Received ==
    IF updatesc.buf # <<>>
    THEN [valid |-> TRUE, events |-> Head(updatesc.buf).events, more |-> TRUE, err |-> "nil"]
    ELSE [valid |-> TRUE, events |-> EmptyBag, more |-> FALSE, err |-> "nil"]

\* return <-r.updatesc, nil: blocks while the channel is open and empty.
NextReturn ==
    /\ Alive
    /\ nextPc = "waiting"
    /\ updatesc.buf # <<>> \/ updatesc.state = "closed"
    /\ lastNext' = Received
    /\ recvd' = IF updatesc.buf # <<>> THEN Append(recvd, Head(updatesc.buf)) ELSE recvd
    /\ updatesc' = [updatesc EXCEPT !.buf = IF @ = <<>> THEN @ ELSE Tail(@)]
    /\ nextPc' = "idle"
    /\ UNCHANGED <<n, status, ctorPc, updPc, mu, oldStatuses, pending,
                   updates, roundNo, quitc, nextInfo, closePc, seqClose,
                   panicked, hist>>
    /\ UNCHANGED <<lbVars, staticVars>>

\* ------------------------------------------------------------ Close
\* Variant of CloseSelect without the test of quitc.
CloseSelectNoCheck(c) ==
    /\ Alive
    /\ ctorPc = "returned"
    /\ closePc[c] = "idle"
    /\ closePc' = [closePc EXCEPT ![c] = "closeQuitc"]
    /\ seqClose' = (seqClose \/ \E d \in Closers : closePc[d] = "done")
    /\ UNCHANGED <<n, status, ctorPc, updPc, mu, oldStatuses, pending,
                   updates, roundNo, quitc, updatesc, nextPc, nextInfo,
                   lastNext, recvd, panicked, hist>>
    /\ UNCHANGED <<lbVars, staticVars>>

\* select { case <-r.quitc: (return)  default: (go on to the two closes) }
CloseSelect(c) ==
    /\ Alive
    /\ ctorPc = "returned"
    /\ closePc[c] = "idle"
    /\ closePc' = [closePc EXCEPT ![c] = IF quitc = "closed" THEN "done" ELSE "closeQuitc"]
    /\ seqClose' = (seqClose \/ \E d \in Closers : closePc[d] = "done")
    /\ UNCHANGED <<n, status, ctorPc, updPc, mu, oldStatuses, pending,
                   updates, roundNo, quitc, updatesc, nextPc, nextInfo,
                   lastNext, recvd, panicked, hist>>
    /\ UNCHANGED <<lbVars, staticVars>>

\* close(r.quitc)
CloseQuitc(c) ==
    /\ Alive
    /\ closePc[c] = "closeQuitc"
    /\ IF quitc = "closed"
       THEN /\ panicked' = "close of closed channel"
            /\ UNCHANGED <<quitc, closePc, seqClose>>
       ELSE /\ quitc' = "closed"
            /\ closePc' = [closePc EXCEPT ![c] = "closeUpdatesc"]
            /\ UNCHANGED <<panicked, seqClose>>
    /\ UNCHANGED <<n, status, ctorPc, updPc, mu, oldStatuses, pending,
                   updates, roundNo, updatesc, nextPc, nextInfo, lastNext,
                   recvd, hist>>
    /\ UNCHANGED <<lbVars, staticVars>>

\* close(r.updatesc); Close returns.  A Next call blocked in the receive at this
\* moment is noted in nextInfo.
CloseUpdatesc(c) ==
    /\ Alive
    /\ closePc[c] = "closeUpdatesc"
    /\ IF updatesc.state = "closed"
       THEN /\ panicked' = "close of closed channel"
            /\ UNCHANGED <<updatesc, closePc, seqClose, nextInfo>>
       ELSE /\ updatesc' = [updatesc EXCEPT !.state = "closed"]
            /\ closePc' = [closePc EXCEPT ![c] = "done"]
            /\ nextInfo' = [nextInfo EXCEPT !.blockedAtClose =
                                nextPc = "waiting" /\ updatesc.buf = <<>>]
            /\ UNCHANGED <<panicked, seqClose>>
    /\ UNCHANGED <<n, status, ctorPc, updPc, mu, oldStatuses, pending,
                   updates, roundNo, quitc, nextPc, lastNext, recvd, hist>>
    /\ UNCHANGED <<lbVars, staticVars>>

\* ------------------------------------------------------------ specification
Next ==
    \/ NewResolverCheck
    \/ NewResolverUpdate
    \/ NewResolverJoin
    \/ NewResolverPush
    \/ NewResolverGo
    \/ \E e \in Endpoints, o \in ProbeOutcomes : Probe(e, o)
    \/ UpdaterSelectTick
    \/ UpdaterSelectQuit
    \/ UpdaterLoop
    \/ UpdaterUpdate
    \/ UpdaterJoin
    \/ UpdaterSend
    \/ NextCall
    \/ NextReturn
    \/ \E c \in Closers : CloseSelect(c)
    \/ \E c \in Closers : CloseQuitc(c)
    \/ \E c \in Closers : CloseUpdatesc(c)

Spec == Init /\ [][Next]_vars

\* The steps of the goroutines the Go scheduler runs on its own: NewResolver,
\* the probe goroutines, the updater (the ticker keeps ticking), a Next call
\* that has something to receive, and a Close call that has started.  Whether
\* and when Next and Close are called is up to the caller.
ConstructorStep ==
    NewResolverCheck \/ NewResolverUpdate \/ NewResolverJoin \/ NewResolverPush \/ NewResolverGo
UpdaterStep ==
    UpdaterSelectTick \/ UpdaterSelectQuit \/ UpdaterLoop \/ UpdaterUpdate \/ UpdaterJoin \/ UpdaterSend
ProbeStep == \E e \in Endpoints, o \in ProbeOutcomes : Probe(e, o)
CloseStep == \E c \in Closers : CloseQuitc(c) \/ CloseUpdatesc(c)

FairSpec ==
    /\ Spec
    /\ WF_vars(ConstructorStep)
    /\ WF_vars(ProbeStep)
    /\ WF_vars(UpdaterStep)
    /\ WF_vars(NextReturn)
    /\ WF_vars(CloseStep)

\* FairSpec with a consumer that keeps calling Next.
LiveSpec == FairSpec /\ WF_vars(NextCall)


\* ============================================================================
\* lb.HealthzResolver (src/lb/healthz.go), the resolver of package lb.  It
\* has the fields of healthz.Resolver and the same Next, Close and updater
\* loop; it differs in NewHealthzResolver and in the probe goroutine of update,
\* which returns a probe's error to the errgroup instead of storing a status.
\* This specification is about construction, rounds and Next; Close is not
\* called in it.

\* http.StatusNotImplemented: the status of an endpoint before its first
\* successful probe.
StatusNotImplemented == 501

\* What one probe of lb.HealthzResolver.update can return: a response with a
\* status code, a transport error (connection refused), or, once the round's
\* context is done, the context's error.  A response that arrives while the
\* context is being cancelled can still be returned.
HealthzProbeOutcomes ==
    {[err |-> "nil", code |-> c] : c \in ResponseCodes}
        \cup {[err |-> "transport", code |-> 0]}
        \cup (IF ctx \in {"deadline", "canceled"}
              THEN {[err |-> "ctx", code |-> 0]} ELSE {})

LbInit ==
    /\ n \in 0..MaxEndpoints
    /\ status = [e \in 1..n |-> StatusNotImplemented]
    /\ ctorPc = "start"
    /\ updPc = "none"
    /\ mu = "free"
    /\ oldStatuses = <<>>
    /\ pending = {}
    /\ updates = EmptyBag
    /\ roundNo = 0
    /\ quitc = "open"
    /\ updatesc = [state |-> "nil", buf |-> <<>>]
    /\ nextPc = "idle"
    /\ nextInfo = [first |-> FALSE, afterClose |-> FALSE, blockedAtClose |-> FALSE]
    /\ lastNext = NoNext
    /\ recvd = <<>>
    /\ closePc = [c \in Closers |-> "idle"]
    /\ seqClose = FALSE
    /\ panicked = "none"
    /\ hist = <<>>
    /\ NoRound
    /\ NoStatic

\* update, first part: r.mu.Lock(), the snapshot of the statuses, the context
\* with the round's deadline, the errgroup, and one probe goroutine started
\* per endpoint.
HealthzResolverUpdateLock(p) ==
    /\ mu = "free"
    /\ mu' = p
    /\ oldStatuses' = status
    /\ pending' = Endpoints
    /\ roundNo' = roundNo + 1
    /\ ctx' = "live"
    /\ gerr' = "nil"

\* One probe goroutine: ctxhttp.Get ends with outcome o.  On an error the
\* goroutine returns it without touching ep.status; the errgroup keeps the
\* first error and cancels the context of the round.  Otherwise the goroutine
\* stores the status code and returns nil.
HealthzResolverProbe(e, o) ==
    /\ Alive
    /\ e \in pending
    /\ pending' = pending \ {e}
    /\ IF o.err = "nil"
       THEN /\ status' = [status EXCEPT ![e] = o.code]
            /\ UNCHANGED <<ctx, gerr>>
       ELSE /\ gerr' = IF gerr = "nil" THEN o.err ELSE gerr
            /\ ctx' = IF ctx = "live" THEN "canceled" ELSE ctx
            /\ UNCHANGED status
    /\ UNCHANGED <<n, ctorPc, updPc, mu, oldStatuses, updates, roundNo, quitc,
                   updatesc, nextPc, nextInfo, lastNext, recvd, closePc,
                   seqClose, panicked, hist>>
    /\ UNCHANGED staticVars

\* r.checkTimeout elapses while probes are in flight: the context of the
\* round is done with DeadlineExceeded.
HealthzResolverDeadline ==
    /\ Alive
    /\ mu # "free"
    /\ pending # {}
    /\ ctx = "live"
    /\ ctx' = "deadline"
    /\ UNCHANGED <<resolverVars, gerr, staticVars>>

\* update, second part: g.Wait() returns the first error once every probe
\* goroutine has returned.  With an error update returns (nil, err); without,
\* it computes and returns the batch.  The deferred cancel and Unlock run in
\* both cases.  gerr keeps the error for the caller's test of err.
HealthzResolverUpdateJoin(p) ==
    /\ mu = p
    /\ pending = {}
    /\ updates' = IF gerr = "nil" THEN Diff(oldStatuses, status) ELSE EmptyBag
    /\ mu' = "free"
    /\ oldStatuses' = <<>>
    /\ ctx' = "none"

\* NewHealthzResolver up to the call of update: the endpoints get status 501,
\* the channels are made (updatesc with capacity len(endp)), update starts.
NewHealthzResolverUpdate ==
    /\ Alive
    /\ ctorPc = "start"
    /\ updatesc' = [state |-> "open", buf |-> <<>>]
    /\ HealthzResolverUpdateLock("ctor")
    /\ ctorPc' = "probing"
    /\ UNCHANGED <<n, status, updPc, updates, quitc, nextPc, nextInfo,
                   lastNext, recvd, closePc, seqClose, panicked, hist>>
    /\ UNCHANGED staticVars

\* updates, err := r.update(); if err != nil { return nil, err }
NewHealthzResolverJoin ==
    /\ Alive
    /\ ctorPc = "probing"
    /\ HealthzResolverUpdateJoin("ctor")
    /\ ctorPc' = IF gerr = "nil" THEN "joined" ELSE "failed"
    /\ UNCHANGED <<n, status, updPc, pending, roundNo, quitc, updatesc,
                   nextPc, nextInfo, lastNext, recvd, closePc, seqClose,
                   panicked, hist>>
    /\ UNCHANGED <<gerr, staticVars>>

\* r.updatesc <- updates, whatever the length of the batch.  The channel is
\* empty and nothing receives from it yet, so the send completes iff the
\* capacity len(endp) is at least 1.
NewHealthzResolverPush ==
    /\ Alive
    /\ ctorPc = "joined"
    /\ Len(updatesc.buf) < n
    /\ updatesc' = [updatesc EXCEPT
                      !.buf = Append(@, [round |-> roundNo, events |-> updates])]
    /\ updates' = EmptyBag
    /\ ctorPc' = "go"
    /\ UNCHANGED <<n, status, updPc, mu, oldStatuses, pending, roundNo, quitc,
                   nextPc, nextInfo, lastNext, recvd, closePc, seqClose,
                   panicked, hist>>
    /\ UNCHANGED <<lbVars, staticVars>>

\* go r.updater(); return r, nil: the statements of healthz.NewResolver.
NewHealthzResolverGo == NewResolverGo

\* The updater's select taking case <-t.C, and its send: the statements of
\* healthz.Resolver.updater.
HealthzResolverUpdaterTick == UpdaterSelectTick
HealthzResolverUpdaterSend == UpdaterSend

HealthzResolverUpdaterUpdate ==
    /\ Alive
    /\ updPc = "update"
    /\ HealthzResolverUpdateLock("updater")
    /\ updPc' = "probing"
    /\ UNCHANGED <<n, status, ctorPc, updates, quitc, updatesc, nextPc,
                   nextInfo, lastNext, recvd, closePc, seqClose, panicked,
                   hist>>
    /\ UNCHANGED staticVars

\* update returned: with an error the updater logs it and continues with the
\* next iteration of its loop; without, it goes on to the send.
HealthzResolverUpdaterJoin ==
    /\ Alive
    /\ updPc = "probing"
    /\ HealthzResolverUpdateJoin("updater")
    /\ updPc' = IF gerr = "nil" THEN "send" ELSE "select"
    /\ UNCHANGED <<n, status, ctorPc, pending, roundNo, quitc, updatesc,
                   nextPc, nextInfo, lastNext, recvd, closePc, seqClose,
                   panicked, hist>>
    /\ UNCHANGED <<gerr, staticVars>>

\* HealthzResolver.Next: return <-r.updatesc, nil, the statement of
\* healthz.Resolver.Next.
HealthzResolverNextCall == NextCall
HealthzResolverNextReturn == NextReturn

LbNext ==
    \/ NewHealthzResolverUpdate
    \/ NewHealthzResolverJoin
    \/ NewHealthzResolverPush
    \/ NewHealthzResolverGo
    \/ \E e \in Endpoints, o \in HealthzProbeOutcomes : HealthzResolverProbe(e, o)
    \/ HealthzResolverDeadline
    \/ HealthzResolverUpdaterTick
    \/ HealthzResolverUpdaterUpdate
    \/ HealthzResolverUpdaterJoin
    \/ HealthzResolverUpdaterSend
    \/ HealthzResolverNextCall
    \/ HealthzResolverNextReturn

LbSpec == LbInit /\ [][LbNext]_vars

\* LbSpec with a scheduler that lets the constructor, every started probe
\* goroutine and the updater take their next step whenever they can; the
\* consumer is under no obligation to call Next.
LbConstructorStep ==
    NewHealthzResolverUpdate \/ NewHealthzResolverJoin \/ NewHealthzResolverPush \/ NewHealthzResolverGo
LbProbeStep == \E e \in Endpoints, o \in HealthzProbeOutcomes : HealthzResolverProbe(e, o)
LbUpdaterStep ==
    HealthzResolverUpdaterTick \/ HealthzResolverUpdaterUpdate \/ HealthzResolverUpdaterJoin \/ HealthzResolverUpdaterSend

LbFairSpec ==
    /\ LbSpec
    /\ WF_vars(LbConstructorStep)
    /\ WF_vars(LbProbeStep)
    /\ WF_vars(LbUpdaterStep)


\* ============================================================================
\* StaticResolver (src/lb/healthz/healthz.go:254-288; package static has the
\* same code): Next returns the list of addresses once and then blocks; Close
\* does nothing.  Next reads and writes r.addr without synchronisation, so the
\* callers of this specification run the body of Next one after the other; a
\* call that blocks stays blocked while other calls are made.

\* The addresses the lists are drawn from.
AddrNames == {"node1:1000", "node2:2000", "node3:3000"}

\* Variant of NewStaticResolver that puts each address in front of the list.
RECURSIVE NewStaticResolverInFront(_)
NewStaticResolverInFront(a) ==
    IF a = <<>> THEN <<>>
    ELSE <<[Op |-> "Add", Addr |-> a[Len(a)]]>>
            \o NewStaticResolverInFront(SubSeq(a, 1, Len(a) - 1))

\* r.addr after NewStaticResolver(a...): one {Add, address} appended per
\* address, in the order given; the nil slice (<<>>) when there is none.
RECURSIVE NewStaticResolver(_)
NewStaticResolver(a) ==
    IF a = <<>> THEN <<>>
    ELSE Append(NewStaticResolver(SubSeq(a, 1, Len(a) - 1)),
                [Op |-> "Add", Addr |-> a[Len(a)]])

\* No health-checked resolver is part of the behaviour.
NoResolver ==
    /\ n = 0
    /\ status = <<>>
    /\ ctorPc = "none"
    /\ updPc = "none"
    /\ mu = "free"
    /\ oldStatuses = <<>>
    /\ pending = {}
    /\ updates = EmptyBag
    /\ roundNo = 0
    /\ quitc = "open"
    /\ updatesc = [state |-> "nil", buf |-> <<>>]
    /\ nextPc = "idle"
    /\ nextInfo = [first |-> FALSE, afterClose |-> FALSE, blockedAtClose |-> FALSE]
    /\ lastNext = NoNext
    /\ recvd = <<>>
    /\ closePc = [c \in Closers |-> "idle"]
    /\ seqClose = FALSE
    /\ panicked = "none"
    /\ hist = <<>>

StaticInit ==
    /\ NoResolver
    /\ NoRound
    /\ given \in UNION {[1..k -> AddrNames] : k \in 0..MaxAddrs}
    /\ addr = NewStaticResolver(given)
    /\ snPc = [g \in StaticCallers |-> "idle"]
    /\ snLast = NoStaticNext
    /\ snCalls = 0
    /\ closeCalls = 0

\* Caller g calls Next; no other call is inside the body of Next.
StaticResolverNextCall(g) ==
    /\ snPc[g] = "idle"
    /\ \A h \in StaticCallers : snPc[h] # "called"
    /\ snCalls < MaxNextCalls
    /\ snPc' = [snPc EXCEPT ![g] = "called"]
    /\ snCalls' = snCalls + 1
    /\ UNCHANGED <<resolverVars, lbVars, given, addr, snLast, closeCalls>>

\* Variant of StaticResolverNext that leaves r.addr as it is.
StaticResolverNextKeep(g) ==
    /\ snPc[g] = "called"
    /\ IF addr # <<>>
       THEN /\ snLast' = [valid |-> TRUE, updates |-> addr, err |-> "nil",
                          call |-> snCalls, closes |-> closeCalls]
            /\ snPc' = [snPc EXCEPT ![g] = "idle"]
       ELSE /\ snPc' = [snPc EXCEPT ![g] = "blocked"]
            /\ UNCHANGED snLast
    /\ UNCHANGED <<resolverVars, lbVars, given, addr, snCalls, closeCalls>>

\* The body of Next: with r.addr != nil it returns the list with a nil error
\* and sets r.addr to nil; otherwise it receives from a channel it has just
\* made, which nothing sends on or closes, and so blocks for ever.
StaticResolverNext(g) ==
    /\ snPc[g] = "called"
    /\ IF addr # <<>>
       THEN /\ snLast' = [valid |-> TRUE, updates |-> addr, err |-> "nil",
                          call |-> snCalls, closes |-> closeCalls]
            /\ addr' = <<>>
            /\ snPc' = [snPc EXCEPT ![g] = "idle"]
       ELSE /\ snPc' = [snPc EXCEPT ![g] = "blocked"]
            /\ UNCHANGED <<snLast, addr>>
    /\ UNCHANGED <<resolverVars, lbVars, given, snCalls, closeCalls>>

\* Close: func (r *StaticResolver) Close() {}.  It can be called at any time.
StaticResolverClose ==
    /\ closeCalls < MaxCloseCalls
    /\ closeCalls' = closeCalls + 1
    /\ UNCHANGED <<resolverVars, lbVars, given, addr, snPc, snLast, snCalls>>

StaticNext ==
    \/ \E g \in StaticCallers : StaticResolverNextCall(g)
    \/ \E g \in StaticCallers : StaticResolverNext(g)
    \/ StaticResolverClose

StaticSpec == StaticInit /\ [][StaticNext]_vars


\* ------------------------------------------------------------ properties
\* Number of updates {op, Addr(e)} in a batch.
Count(op, e, batch) == CopiesIn([Op |-> op, Addr |-> Addr(e)], batch)

\* The batch with exactly one Add per configured endpoint and nothing else.
AddsOfAll == SetToBag({[Op |-> "Add", Addr |-> Addr(e)] : e \in Endpoints})

\* The round NewResolver ran found every endpoint healthy.
FirstRoundAllHealthy ==
    /\ hist # <<>>
    /\ hist[1].round = 1
    /\ hist[1].ok = Endpoints

\* The consumer's first Next call has returned.
FirstNextReturned == nextPc = "idle" /\ lastNext.valid /\ nextInfo.first

\* C1: if every endpoint probed healthy in the round run by NewResolver, the
\* first Next call returns exactly one Add per configured endpoint address
\* and no Delete.
C1_InitialBaseline ==
    (FirstRoundAllHealthy /\ FirstNextReturned) => lastNext.events = AddsOfAll

C1_Witness ==
    /\ n = MaxEndpoints
    /\ FirstRoundAllHealthy
    /\ FirstNextReturned
    /\ \A e \in Endpoints : Count("Add", e, lastNext.events) = 1
    /\ BagCardinality(lastNext.events) = n

\* C2: an endpoint healthy at round k, unhealthy at round k+1 and still
\* unhealthy at round k+2 has exactly one Delete in the batch of round k+1 and
\* no Delete in the batches of rounds k and k+2.
C2_EdgeTriggeredDelete ==
    \A i \in 1..Len(hist) : \A e \in Endpoints :
        (/\ i + 2 <= Len(hist)
         /\ hist[i+1].round = hist[i].round + 1
         /\ hist[i+2].round = hist[i].round + 2
         /\ e \in hist[i].ok
         /\ e \notin hist[i+1].ok
         /\ e \notin hist[i+2].ok)
        => /\ Count("Delete", e, hist[i+1].events) = 1
           /\ Count("Delete", e, hist[i].events) = 0
           /\ Count("Delete", e, hist[i+2].events) = 0

C2_Witness ==
    /\ Len(hist) = 3
    /\ \E e \in Endpoints :
        /\ e \in hist[1].ok /\ e \notin hist[2].ok /\ e \notin hist[3].ok
        /\ hist[2].events = Update("Delete", e)
        /\ Count("Delete", e, hist[3].events) = 0

\* No Close call has been issued.
CloseNotCalled == \A c \in Closers : closePc[c] = "idle"

\* The batch of the round recorded in h is with its caller (computed, not yet
\* sent), in the update channel, or has been returned by a Next call.
Held(h) ==
    /\ roundNo = h.round
    /\ updates = h.events
    /\ updPc = "send" \/ ctorPc = "joined"
Buffered(h) ==
    \E j \in DOMAIN updatesc.buf : updatesc.buf[j] = [round |-> h.round, events |-> h.events]
Delivered(h) ==
    \E j \in DOMAIN recvd : recvd[j] = [round |-> h.round, events |-> h.events]

\* The batch of round r holds the Add of an endpoint that was unhealthy at
\* round r-1 and healthy at round r, and is with its caller or in the channel.
RecoveryPending(r) ==
    \E i \in 1..Len(hist) : \E e \in Endpoints :
        /\ i + 1 <= Len(hist)
        /\ hist[i+1].round = r
        /\ hist[i].round = r - 1
        /\ e \notin hist[i].ok
        /\ e \in hist[i+1].ok
        /\ Held(hist[i+1]) \/ Buffered(hist[i+1])

\* A Next call has returned the batch of round r.
Got(r) == \E j \in DOMAIN recvd : recvd[j].round = r

\* The batch of every round in which an endpoint recovered has exactly one Add
\* for it and is not lost: until the update channel is closed it is with the
\* round's caller, in the channel, or has been returned by a Next call.
RecoverySafe ==
    \A i \in 1..Len(hist) : \A e \in Endpoints :
        (/\ i + 1 <= Len(hist)
         /\ hist[i+1].round = hist[i].round + 1
         /\ e \notin hist[i].ok
         /\ e \in hist[i+1].ok)
        => /\ Count("Add", e, hist[i+1].events) = 1
           /\ \/ Held(hist[i+1])
              \/ Buffered(hist[i+1])
              \/ Delivered(hist[i+1])
              \/ updatesc.state = "closed"

\* C3: an endpoint unhealthy at round k and healthy at round k+1 has exactly
\* one Add in the batch of round k+1, and a consumer that keeps calling Next
\* receives that batch from a Next call, unless Close is called first.
C3_Recovery ==
    /\ []RecoverySafe
    /\ \A r \in 1..MaxRounds : RecoveryPending(r) ~> (Got(r) \/ ~CloseNotCalled)

C3_Witness ==
    \E i \in 1..Len(hist) : \E e \in Endpoints :
        /\ i + 1 <= Len(hist)
        /\ e \notin hist[i].ok
        /\ e \in hist[i+1].ok
        /\ Delivered(hist[i+1])
        /\ lastNext.events = hist[i+1].events
        /\ Count("Add", e, lastNext.events) = 1


\* Some Close call has returned.
CloseReturned == \E c \in Closers : closePc[c] = "done"

\* C4: a round that changed no endpoint's classification pushes nothing, so
\* the update channel never holds an empty batch and no Next call returns an
\* empty batch received from the channel.
C4_NoEmptyBatch ==
    /\ \A j \in DOMAIN updatesc.buf : BagCardinality(updatesc.buf[j].events) > 0
    /\ (lastNext.valid /\ lastNext.more) => BagCardinality(lastNext.events) > 0

\* C5: a Next call issued after Close has returned (both channels closed)
\* returns a non-nil error.
C5_NextAfterCloseFails ==
    (nextPc = "idle" /\ lastNext.valid /\ nextInfo.afterClose) => lastNext.err # "nil"

\* C6: a Next call that was blocked in the receive when Close closed the
\* update channel returns a terminal signal (a non-nil error).
C6_BlockedNextGetsTerminalSignal ==
    (nextPc = "idle" /\ lastNext.valid /\ nextInfo.blockedAtClose) => lastNext.err # "nil"

\* C7: once Close has returned, the updater starts no further round.
C7_NoRoundAfterClose ==
    [][Closed => ~(updPc = "select" /\ updPc' = "update")]_vars

\* C8: the updater never sends on the closed update channel.
C8_NoSendOnClosedChannel == panicked # "send on closed channel"

\* C9: a Close call issued after another Close call has returned returns at
\* once: it changes nothing, closes no channel and does not panic.
C9_SecondCloseNoEffect ==
    [][\A c \in Closers :
         (closePc[c] = "idle" /\ closePc'[c] # "idle" /\ CloseReturned)
         => /\ closePc'[c] = "done"
            /\ UNCHANGED <<n, status, ctorPc, updPc, mu, oldStatuses, pending,
                           updates, roundNo, quitc, updatesc, nextPc,
                           nextInfo, lastNext, recvd, panicked, hist>>]_vars

C9_Witness ==
    /\ seqClose
    /\ \A c \in Closers : closePc[c] = "done"
    /\ quitc = "closed"
    /\ updatesc.state = "closed"
    /\ panicked = "none"

\* C10: as long as Close is not called, the updater is never blocked for ever
\* in its send on the update channel, whatever the consumer does.
C10_SendNotBlockedForever ==
    (updPc = "send") ~> (updPc # "send" \/ ~CloseNotCalled)


\* Every batch handed to the update channel so far, oldest first: the ones
\* Next has returned, then the ones still buffered.
Pushed == recvd \o updatesc.buf

\* The updater is between two rounds: every round started so far has ended
\* and its batch has left the updater's hands.
UpdaterIdle == updPc \in {"select", "break", "update"}

\* C11: Next returns the batches in the order their rounds completed: the
\* rounds of the batches returned and buffered are consecutive (none twice,
\* none skipped), they start with the construction round when its batch is
\* not empty and with the first tick round otherwise, they end with the last
\* round the updater finished, each batch is the one its round computed, and
\* a Next call returns the oldest batch not returned before.
C11_FifoDelivery ==
    /\ \A j \in 1..(Len(Pushed) - 1) : Pushed[j+1].round = Pushed[j].round + 1
    /\ Pushed # <<>> => Pushed[1].round \in {1, 2}
    /\ \A i \in 1..Len(hist) :
        /\ (hist[i].round = 1 /\ BagCardinality(hist[i].events) > 0
               /\ ctorPc \in {"go", "returned"})
           => (Pushed # <<>> /\ Pushed[1].round = 1)
        /\ (hist[i].round = 1 /\ Pushed # <<>> /\ Pushed[1].round = 2)
           => hist[i].events = EmptyBag
        /\ \A j \in 1..Len(Pushed) :
             Pushed[j].round = hist[i].round => Pushed[j].events = hist[i].events
    /\ (UpdaterIdle /\ roundNo >= 2)
       => (Pushed # <<>> /\ Pushed[Len(Pushed)].round = roundNo)
    /\ (lastNext.valid /\ lastNext.more)
       => (recvd # <<>> /\ lastNext.events = recvd[Len(recvd)].events)

C11_Witness ==
    /\ n = MaxEndpoints
    /\ Len(recvd) >= 2
    /\ recvd[1].round = 1
    /\ recvd[2].round = 2
    /\ recvd[1].events # recvd[2].events
    /\ lastNext.events = recvd[2].events
    /\ updatesc.buf # <<>>
    /\ nextPc = "idle"


\* C12: NewResolver without endpoints returns ErrNoEndpoints and no resolver:
\* no round is run, the update channel is never made, the updater is never
\* started, and there is no resolver to call Next or Close on.
C12_NoEndpointsFails ==
    n = 0 =>
        /\ ctorPc \in {"start", "failed"}
        /\ roundNo = 0
        /\ mu = "free"
        /\ hist = <<>>
        /\ updatesc.state = "nil"
        /\ updPc = "none"
        /\ nextPc = "idle"
        /\ CloseNotCalled

C12_Witness ==
    /\ n = 0
    /\ ctorPc = "failed"
    /\ updatesc.state = "nil"
    /\ updPc = "none"


\* The statuses a probe can store.
Stored == ResponseCodes \cup {StatusServiceUnavailable}

\* C13: the probes of a round are independent.  The probe of an endpoint,
\* failed or not, ends only itself: it stores a status for its own endpoint,
\* leaves every other endpoint's status alone and leaves every other probe in
\* flight, so that each endpoint's status is written by its own probe.  The
\* round ends only when every probe has ended, and it ends with its batch
\* computed from the statuses the probes stored and handed to its caller for
\* the push, whatever the probes returned.
C13_ProbeIsolation ==
    [][/\ \A e \in Endpoints :
            (e \in pending /\ e \notin pending')
            => /\ pending' = pending \ {e}
               /\ status'[e] \in Stored
               /\ \A f \in Endpoints \ {e} : status'[f] = status[f]
               /\ mu' = mu
       /\ (mu # "free" /\ mu' = "free")
            => /\ pending = {}
               /\ status' = status
               /\ updates' = Diff(oldStatuses, status)
               /\ hist' # <<>>
               /\ hist'[Len(hist')] =
                      [round |-> roundNo,
                       ok |-> {e \in Endpoints : IsOK(status[e])},
                       events |-> updates']
               /\ updPc' = "send" \/ ctorPc' = "joined"]_vars

\* In the last round the probe of e failed with an error (e was healthy
\* before and now has the status only a failed probe stores) while f
\* recovered; the batch of that round holds the Delete of e and the Add of f,
\* and Next has returned it.
C13_Witness ==
    \E i \in 1..Len(hist) : \E e, f \in Endpoints :
        /\ i + 1 <= Len(hist)
        /\ hist[i+1].round = roundNo
        /\ hist[i].round = roundNo - 1
        /\ mu = "free"
        /\ e \in hist[i].ok
        /\ status[e] = StatusServiceUnavailable
        /\ f \notin hist[i].ok
        /\ IsOK(status[f])
        /\ hist[i+1].events = Update("Delete", e) (+) Update("Add", f)
        /\ Delivered(hist[i+1])


\* C15: a Next call returns a non-nil error only when the update channel has
\* been closed; on an open resolver it returns a nil error whatever the
\* probes of any round returned.
C15_NextErrorOnlyWhenClosed ==
    (lastNext.valid /\ lastNext.err # "nil") => updatesc.state = "closed"

\* On a resolver nobody closed, Next returned the batch of the last round, in
\* which the probe of a healthy endpoint failed with an error (its Delete is
\* in the batch) and another endpoint answered with a non-2xx status.
C15_Witness ==
    /\ CloseNotCalled
    /\ nextPc = "idle"
    /\ lastNext.valid
    /\ lastNext.more
    /\ lastNext.err = "nil"
    /\ mu = "free"
    /\ recvd[Len(recvd)].round = roundNo
    /\ \E e, f \in Endpoints :
        /\ status[e] = StatusServiceUnavailable
        /\ Count("Delete", e, lastNext.events) = 1
        /\ status[f] \in ResponseCodes
        /\ ~IsOK(status[f])

\* A status in 200..299.
InSuccessRange(st) == st \in 200..299

\* C20: the batch update returns holds, for each endpoint, one Delete iff its
\* previous status is in 200..299 and its new status is not, one Add iff its
\* previous status is not in 200..299 and its new status is, and nothing
\* else; an endpoint still at its initial status 503 whose probe in the first
\* round is unhealthy contributes nothing.
C20_DiffExact ==
    [][(mu # "free" /\ mu' = "free")
       => /\ \A e \in Endpoints :
                LET was == InSuccessRange(oldStatuses[e])
                    is == InSuccessRange(status[e])
                IN /\ Count("Delete", e, updates') = IF was /\ ~is THEN 1 ELSE 0
                   /\ Count("Add", e, updates') = IF ~was /\ is THEN 1 ELSE 0
                   /\ (roundNo = 1 /\ ~is)
                        => /\ oldStatuses[e] = StatusServiceUnavailable
                           /\ Count("Delete", e, updates') = 0
                           /\ Count("Add", e, updates') = 0
          /\ BagCardinality(updates') =
                Cardinality({e \in Endpoints :
                    InSuccessRange(oldStatuses[e]) # InSuccessRange(status[e])})]_vars

\* In the first round e was unhealthy and got no event while f got its Add;
\* in the second round f became unhealthy and e healthy, and the batch is the
\* Delete of f and the Add of e.
C20_Witness ==
    /\ Len(hist) >= 2
    /\ hist[1].round = 1
    /\ hist[2].round = 2
    /\ \E e, f \in Endpoints :
        /\ e \notin hist[1].ok
        /\ f \in hist[1].ok
        /\ hist[1].events = Update("Add", f)
        /\ e \in hist[2].ok
        /\ f \notin hist[2].ok
        /\ hist[2].events = Update("Delete", f) (+) Update("Add", e)

\* C21: at most one round is in flight.  The updater exists only once
\* NewResolver has finished its round and returned; a round in flight belongs
\* to exactly one caller of update, which is inside update and nowhere else;
\* outside a round no probe is in flight and no snapshot is held; and a round
\* starts only when no round is in flight.
C21_OneRoundInFlight ==
    /\ [](/\ updPc # "none" => ctorPc = "returned"
          /\ mu = "ctor" <=> ctorPc = "probing"
          /\ mu = "updater" <=> updPc = "probing"
          /\ mu = "free" => (pending = {} /\ oldStatuses = <<>>))
    /\ [][roundNo' # roundNo
            => /\ roundNo' = roundNo + 1
               /\ mu = "free"
               /\ pending = {}
               /\ mu' # "free"]_vars

\* The updater is in its second round of probes, one probe still in flight,
\* after the construction round and its own first round have ended.
C21_Witness ==
    /\ ctorPc = "returned"
    /\ updPc = "probing"
    /\ mu = "updater"
    /\ roundNo = 3
    /\ Len(hist) = 2
    /\ pending # {}
    /\ pending # Endpoints

\* C23: Resolver.mu is not held while probes are in flight.
C23_LockFreeWhileProbing == pending # {} => mu = "free"

\* C27: no Close call closes a channel that is already closed.
C27_NoDoubleClose == panicked # "close of closed channel"

\* C24: as long as Close is not called, every round the updater starts
\* completes and the updater goes back to its select to wait for the next
\* tick, whatever the endpoints answer and whatever the consumer does.
C24_RoundEndsAtSelect ==
    (updPc = "probing") ~> (updPc = "select" \/ ~CloseNotCalled)

\* The addresses a batch adds and the addresses it deletes.
AddsIn(b) == {u.Addr : u \in {v \in BagToSet(b) : v.Op = "Add"}}
DeletesIn(b) == {u.Addr : u \in {v \in BagToSet(b) : v.Op = "Delete"}}

\* The membership set a consumer holds after applying the batches of seq, in
\* order, to the empty set.
RECURSIVE Members(_)
Members(seq) ==
    IF seq = <<>> THEN {}
    ELSE LET front == Members(SubSeq(seq, 1, Len(seq) - 1))
             last == seq[Len(seq)].events
         IN  (front \cup AddsIn(last)) \ DeletesIn(last)

\* No round is running and no batch with events waits to be pushed.
BetweenRounds == mu = "free" /\ updates = EmptyBag

\* C26: the batches pushed so far, applied in order to an empty membership
\* set, yield the addresses of the endpoints whose stored status is in
\* 200..299 whenever no round is running and no batch waits to be pushed; every
\* pushed event names a configured endpoint and occurs once in its batch, an
\* Add is pushed only for an address that is not a member, and a Delete only
\* for an address that is one.
C26_MembershipMatchesStatus ==
    /\ \A j \in 1..Len(Pushed) :
          LET before == Members(SubSeq(Pushed, 1, j - 1))
              b == Pushed[j].events
          IN  /\ \A u \in BagToSet(b) :
                    /\ CopiesIn(u, b) = 1
                    /\ u.Op \in {"Add", "Delete"}
                    /\ \E e \in Endpoints : u.Addr = Addr(e)
              /\ AddsIn(b) \cap before = {}
              /\ DeletesIn(b) \subseteq before
    /\ BetweenRounds =>
          Members(Pushed) = {Addr(e) : e \in {f \in Endpoints : IsOK(status[f])}}

\* Three batches have been pushed that add, delete and add again the address
\* of endpoint 1, and the updater waits for the next tick.
C26_Witness ==
    /\ BetweenRounds
    /\ updPc = "select"
    /\ Len(Pushed) = 3
    /\ Addr(1) \in AddsIn(Pushed[1].events)
    /\ Addr(1) \in DeletesIn(Pushed[2].events)
    /\ Addr(1) \in AddsIn(Pushed[3].events)
    /\ IsOK(status[1])

\* ---------------------------------------------------- lb.HealthzResolver
\* C14: when the deadline of a round of the updater expires while probes are
\* in flight and update returns the deadline's error, the round is discarded:
\* every endpoint's status is what it was before the round, no batch is
\* returned or pushed, and the updater goes back to waiting for the next tick.
C14_DeadlineDiscardsRound ==
    [][(mu = "updater" /\ mu' = "free" /\ ctx = "deadline" /\ gerr = "ctx")
       => /\ status = oldStatuses
          /\ status' = status
          /\ updates' = EmptyBag
          /\ updatesc' = updatesc
          /\ updPc' = "select"]_vars

\* C16: construction with a non-empty endpoint list never fails, whatever
\* the probes of the initial round return.
C16_ConstructionSucceeds == n > 0 => ctorPc # "failed"

\* Adds minus Deletes of endpoint e in a sequence of pushed batches.
RECURSIVE NetOver(_, _)
NetOver(seq, e) ==
    IF seq = <<>> THEN 0
    ELSE Count("Add", e, Head(seq).events) - Count("Delete", e, Head(seq).events)
            + NetOver(Tail(seq), e)

\* No round is in progress and no batch is in the updater's hands.
Quiescent ==
    /\ ctorPc = "returned"
    /\ updPc = "select"
    /\ mu = "free"

\* C17: every change of an endpoint's stored classification is pushed to the
\* consumer as exactly one event: between rounds, the Adds pushed for an
\* endpoint exceed the Deletes by one when its stored status is OK and equal
\* them when it is not, and no batch holds two events for one endpoint.
C17_ExactlyOnce ==
    /\ \A j \in 1..Len(Pushed) : \A e \in Endpoints :
          Count("Add", e, Pushed[j].events) + Count("Delete", e, Pushed[j].events) <= 1
    /\ Quiescent =>
          \A e \in Endpoints : NetOver(Pushed, e) = IF IsOK(status[e]) THEN 1 ELSE 0


\* ---------------------------------------------------- StaticResolver
\* C18: on a StaticResolver built from at least one address the first Next
\* call does not block and returns, with a nil error, one update per address
\* given, the i-th being {Add, i-th address}; a Close call changes nothing of
\* the resolver or of what its Next calls return, whenever it is made.
C18_FirstNextReturnsList ==
    /\ [](given # <<>> =>
            /\ ~snLast.valid =>
                  /\ addr # <<>>
                  /\ \A g \in StaticCallers : snPc[g] # "blocked"
            /\ snLast.valid =>
                  /\ snLast.call = 1
                  /\ snLast.err = "nil"
                  /\ Len(snLast.updates) = Len(given)
                  /\ \A i \in 1..Len(given) :
                        snLast.updates[i] = [Op |-> "Add", Addr |-> given[i]])
    /\ [][closeCalls' # closeCalls
            => UNCHANGED <<given, addr, snPc, snLast, snCalls>>]_vars

C18_Witness ==
    /\ Len(given) = MaxAddrs
    /\ given[1] # given[Len(given)]
    /\ snLast.valid
    /\ snLast.call = 1
    /\ snLast.closes >= 1
    /\ Len(snLast.updates) = MaxAddrs
    /\ snLast.updates[1] = [Op |-> "Add", Addr |-> given[1]]
    /\ snLast.updates[MaxAddrs] = [Op |-> "Add", Addr |-> given[MaxAddrs]]

\* C19: the list is returned at most once, and every Next call made after
\* the call that returned it blocks and stays blocked, whatever Close calls
\* are made.
C19_ListOnceThenBlock ==
    [][/\ snLast.valid => snLast' = snLast
       /\ \A g \in StaticCallers :
            /\ (snLast.valid /\ snPc[g] = "called" /\ snPc'[g] # "called")
               => snPc'[g] = "blocked"
            /\ snPc[g] = "blocked" => snPc'[g] = "blocked"]_vars

C19_Witness ==
    /\ snLast.valid
    /\ snCalls = MaxNextCalls
    /\ \A g \in StaticCallers : snPc[g] = "blocked"
    /\ closeCalls > snLast.closes
    /\ addr = <<>>


\* C22: the probes of a round that are still in flight have a context that
\* is live or past its deadline: the error of a sibling does not cancel it.
C22_OnlyDeadlineCancels == pending # {} => ctx \in {"live", "deadline"}

\* C25: NewHealthzResolver always returns to its caller, with a resolver or
\* with an error, whatever the endpoint list, the empty one included.
C25_ConstructionReturns ==
    (ctorPc = "start") ~> (ctorPc \in {"returned", "failed"})

====
